---- MODULE Spec2Model ----
(***************************************************************************)
(* Condition algebra of autofit.database.query: And / Or junctions over    *)
(* leaf value conditions and named queries, as normalised at construction  *)
(* by AbstractJunction (junction.py).                                      *)
(*                                                                         *)
(* A caller holds a short list of operands (stack) and builds conditions   *)
(* bottom-up with V(...), Q(name, condition), And(...) and Or(...).       *)
(* Every condition the public constructors can produce within the bounds  *)
(* is reachable.  Conditions are values: two are equal when they have the *)
(* same structure (AbstractCondition's equality and hash).                *)
(***************************************************************************)
EXTENDS Integers, Sequences, FiniteSets, TLC

\* ---------------------------------------------------------------- bounds
\* Most operands a caller holds at once (and most arguments of one call).
MaxArgs == 3
\* Most nodes (leaves, named queries, junction objects) held at once.
MaxSize == 4
\* Most conditions two concurrent constructions share as arguments.
MaxShared == 2

\* The two junction classes (junction.py: class And, class Or).
Kinds == {"And", "Or"}
\* Attribute names used by named queries.
Names == {"a", "b"}
\* Operator / literal pairs of the numeric leaf conditions V("<", 1), V(">", 0).
Leaves == {<<"<", 1>>, <<">", 0>>}

VARIABLES
    stack,    \* the conditions the caller currently holds, oldest first
    call,     \* the last constructor call: [op, cls, name, args]
    result,   \* what that call returned
    text,     \* the text last rendered, empty when a constructor ran since
    heap,     \* the argument conditions two concurrent constructions share
    heap0,    \* those conditions as they were before the constructions
    thread,   \* per thread: its class, the method it runs, its position
    frame     \* per call: the locals of _match_conditions

svars == <<stack, call, result, text>>
cvars == <<heap, heap0, thread, frame>>
vars == <<stack, call, result, text, heap, heap0, thread, frame>>

\* ------------------------------------------------------------ conditions
\* Python's None: an absent condition.
None == [tag |-> "None"]

\* A numeric leaf condition V(op, lit).
V(op, lit) == [tag |-> "V", op |-> op, lit |-> lit]

\* NamedQuery(name, condition): name plus optional inner condition
\* (other_condition), stored as given.
NamedQuery(name, condition) ==
    [tag |-> "Q", name |-> name, other_condition |-> condition]

\* object.__new__(cls) followed by __init__: a Junction object of class cls
\* whose conditions attribute is the given set.
JunctionObject(cls, conditions) ==
    [tag |-> "J", cls |-> cls, conditions |-> conditions]

\* A slip of isinstance(condition, cls): it recognises the other junction
\* class instead of the class under construction.
IsInstance_OtherKind(condition, cls) == condition.tag = "J" /\ condition.cls # cls

\* isinstance(condition, cls) for cls in {And, Or}.
IsInstance(condition, cls) == condition.tag = "J" /\ condition.cls = cls

\* isinstance(condition, NamedQuery).
IsNamedQuery(condition) == condition.tag = "Q"

\* isinstance(condition, AbstractJunction).
IsJunction(condition) == condition.tag = "J"

\* ------------------------------------------------------------- rendering
\* Text is a sequence of tokens; the rendered string is their concatenation.

\* The tokens in the order Python compares their strings (code point by
\* code point).  No token is a prefix of another, so comparing two texts
\* token by token orders them as the strings are ordered.
TokenOrder ==
    << " AND ", " OR ", " WHERE ", "(", ")", ", ", "SELECT parent_id FROM ",
       "id IN (", "o.name = 'a'", "o.name = 'b'", "object AS o",
       "v.value < 1", "v.value > 0", "value AS v" >>

\* Position of each token in the string order.
RankTable ==
    [token \in {TokenOrder[i] : i \in 1..Len(TokenOrder)} |->
        CHOOSE i \in 1..Len(TokenOrder) : TokenOrder[i] = token]

\* Position of a token in the string order.
Rank(token) == RankTable[token]

\* str.__lt__ on two texts.
RECURSIVE LessText(_, _)
LessText(s, t) ==
    IF t = <<>> THEN FALSE
    ELSE IF s = <<>> THEN TRUE
    ELSE IF Head(s) = Head(t) THEN LessText(Tail(s), Tail(t))
    ELSE Rank(Head(s)) < Rank(Head(t))

\* The string a text stands for.
RECURSIVE Concat(_)
Concat(tokens) ==
    IF tokens = <<>> THEN "" ELSE Head(tokens) \o Concat(Tail(tokens))

\* sep.join(texts).
RECURSIVE Join(_, _)
Join(sep, texts) ==
    IF texts = <<>> THEN <<>>
    ELSE IF Len(texts) = 1 THEN Head(texts)
    ELSE Head(texts) \o <<sep>> \o Join(sep, Tail(texts))

\* And.join / Or.join: the SQL keyword of a junction class, as it stands
\* between two members.
JoinToken(cls) == IF cls = "And" THEN " AND " ELSE " OR "

\* The FROM entry of a table: its name and alias.
TableToken(table) ==
    CASE table = "object" -> "object AS o"
      [] table = "value" -> "value AS v"

RECURSIVE Str(_)
RECURSIVE Tables(_)
RECURSIVE Sorted(_)
RECURSIVE SortedKeyed(_)
RECURSIVE Keyed(_)

\* A slip of AbstractJunction.tables: the named queries among the members
\* are not left out.
JunctionTables_WithNamed(junction) ==
    UNION {Tables(condition) : condition \in junction.conditions}

\* AbstractJunction.tables: the tables of all members that are not named
\* queries.
JunctionTables(junction) ==
    UNION {Tables(condition) :
           condition \in {c \in junction.conditions : ~IsNamedQuery(c)}}

\* The tables a named query joins to object in its own SELECT: those of its
\* inner condition, a nested named query keeping its own to its subquery.
JoinTables(query) ==
    IF query.other_condition = None \/ IsNamedQuery(query.other_condition)
    THEN {}
    ELSE Tables(query.other_condition)

\* condition.tables.
Tables(condition) ==
    CASE condition.tag = "None" -> {}
      [] condition.tag = "V" -> {"value"}
      [] condition.tag = "Q" -> {"object"} \cup JoinTables(condition)
      [] condition.tag = "J" -> JunctionTables(condition)

\* NamedQuery.query: the SELECT statement of a named query.
Query(query) ==
    <<"SELECT parent_id FROM ", TableToken("object")>>
    \o (IF "value" \in JoinTables(query)
        THEN <<", ", TableToken("value")>> ELSE <<>>)
    \o <<" WHERE ", "o.name = '" \o query.name \o "'">>
    \o (IF query.other_condition = None THEN <<>>
        ELSE <<" AND ">> \o Str(query.other_condition))

\* AbstractJunction.__str__: the sorted members' strings joined by the
\* class's keyword, in parentheses.
JunctionStr(junction) ==
    LET members == SortedKeyed(Keyed(junction.conditions))
    IN  <<"(">>
        \o Join(JoinToken(junction.cls),
                [i \in 1..Len(members) |-> members[i][1]])
        \o <<")">>

\* A slip of the rendering of a named query: the nested query is written
\* inline, without the id IN ( ... ) subquery form.
Str_NoSubquery(condition) ==
    CASE condition.tag = "V" ->
            <<"v.value " \o condition.op \o " " \o ToString(condition.lit)>>
      [] condition.tag = "Q" -> Query(condition)
      [] condition.tag = "J" -> JunctionStr(condition)

\* str(condition): a leaf comparison against its table alias, a named
\* query as a subquery predicate, a junction by __str__.
Str(condition) ==
    CASE condition.tag = "V" ->
            <<"v.value " \o condition.op \o " " \o ToString(condition.lit)>>
      [] condition.tag = "Q" -> <<"id IN (">> \o Query(condition) \o <<")">>
      [] condition.tag = "J" -> JunctionStr(condition)

\* Each condition of a set with its string, the key conditions compare by.
Keyed(conditions) == {<<Str(c), c>> : c \in conditions}

\* The keyed conditions in the order of their strings (condition < other
\* compares str(condition) with str(other)).
SortedKeyed(pairs) ==
    IF pairs = {} THEN <<>>
    ELSE LET first == CHOOSE p \in pairs :
                          \A q \in pairs \ {p} : ~LessText(q[1], p[1])
         IN  <<first>> \o SortedKeyed(pairs \ {first})

\* sorted(conditions).
Sorted(conditions) ==
    LET members == SortedKeyed(Keyed(conditions))
    IN  [i \in 1..Len(members) |-> members[i][2]]

\* Some enumeration of a set (Python iterates a set in hash order).
RECURSIVE SetToSeq(_)
SetToSeq(S) ==
    IF S = {} THEN <<>>
    ELSE LET x == CHOOSE y \in S : TRUE IN <<x>> \o SetToSeq(S \ {x})

\* AbstractJunction.__iter__: iter(sorted(self.conditions)).
Iter(junction) == Sorted(junction.conditions)

\* A slip of add_conditions: junctions of the class under construction are
\* kept as members instead of being unwrapped.
RECURSIVE AddConditions_NoUnwrap(_, _)
AddConditions_NoUnwrap(cls, conditions_) ==
    IF conditions_ = <<>> THEN [new_conditions |-> {}, named |-> {}]
    ELSE LET condition == Head(conditions_)
             rest == AddConditions_NoUnwrap(cls, Tail(conditions_))
         IN  IF condition = None THEN rest
             ELSE IF IsNamedQuery(condition) THEN
                 [rest EXCEPT !.named = @ \cup {condition}]
             ELSE [rest EXCEPT !.new_conditions = @ \cup {condition}]

\* A slip of add_conditions: a named query replaces the queries already
\* collected under its name (named_query_dict[name] assigned, not added to).
RECURSIVE AddConditions_LastNamed(_, _)
AddConditions_LastNamed(cls, conditions_) ==
    IF conditions_ = <<>> THEN [new_conditions |-> {}, named |-> {}]
    ELSE LET condition == Head(conditions_)
             rest == AddConditions_LastNamed(cls, Tail(conditions_))
         IN  IF condition = None THEN rest
             ELSE IF IsInstance(condition, cls) THEN
                 LET sub == AddConditions_LastNamed(cls, Iter(condition))
                 IN  [new_conditions |-> sub.new_conditions \cup rest.new_conditions,
                      named |-> sub.named \cup rest.named]
             ELSE IF IsNamedQuery(condition) THEN
                 [rest EXCEPT !.named =
                     {q \in @ : q.name # condition.name} \cup {condition}]
             ELSE [rest EXCEPT !.new_conditions = @ \cup {condition}]

\* add_conditions: walks the arguments, skipping None, unwrapping junctions
\* of the class under construction, and partitioning the rest into
\* new_conditions (others) and the named queries.
RECURSIVE AddConditions(_, _)
AddConditions(cls, conditions_) ==
    IF conditions_ = <<>> THEN [new_conditions |-> {}, named |-> {}]
    ELSE LET condition == Head(conditions_)
             rest == AddConditions(cls, Tail(conditions_))
         IN  IF condition = None THEN rest
             ELSE IF IsInstance(condition, cls) THEN
                 LET sub == AddConditions(cls, Iter(condition))
                 IN  [new_conditions |-> sub.new_conditions \cup rest.new_conditions,
                      named |-> sub.named \cup rest.named]
             ELSE IF IsNamedQuery(condition) THEN
                 [rest EXCEPT !.named = @ \cup {condition}]
             ELSE [rest EXCEPT !.new_conditions = @ \cup {condition}]

\* named_query_dict[name]: the named queries collected under one name.
NamedQueryDict(named, name) == {q \in named : q.name = name}

RECURSIVE MatchConditions(_, _)
RECURSIVE New(_, _)

\* A slip of the merge: the inner conditions are always joined with And,
\* whatever the class under construction.
MergedInner_AlwaysAnd(cls, queries) ==
    New("And", SetToSeq({q.other_condition : q \in queries}))

\* The junction class applied to the inner conditions of one name's queries:
\* cls applied to [query.other_condition for query in queries].
MergedInner(cls, queries) ==
    New(cls, SetToSeq({q.other_condition : q \in queries}))

\* A slip of _match_conditions: the named queries are added as they came,
\* without being merged by name.
MatchConditions_NoMerge(cls, conditions) ==
    LET parts == AddConditions(cls, conditions)
    IN  parts.new_conditions \cup parts.named

\* AbstractJunction._match_conditions: the normalised member set.
MatchConditions(cls, conditions) ==
    LET parts == AddConditions(cls, conditions)
        names == {q.name : q \in parts.named}
    IN  parts.new_conditions \cup
        {NamedQuery(n, MergedInner(cls, NamedQueryDict(parts.named, n))) : n \in names}

\* What __new__ / __init__ hand back for a normalised member set: the only
\* member when exactly one is left, otherwise a new object that __init__
\* fills with the member set.
Returned(cls, matched) ==
    IF Cardinality(matched) = 1
    THEN CHOOSE c \in matched : TRUE
    ELSE JunctionObject(cls, matched)

\* cls(conditions...).
New(cls, conditions) == Returned(cls, MatchConditions(cls, conditions))

\* The Junction objects brought into existence while evaluating
\* cls(conditions...): the object of this call (when __new__ allocates one)
\* and those of the nested cls(...) calls that merge same-named queries.
RECURSIVE Created(_, _)
Created(cls, conditions) ==
    LET parts == AddConditions(cls, conditions)
        names == {q.name : q \in parts.named}
        inner == UNION {Created(cls,
                            SetToSeq({q.other_condition :
                                      q \in NamedQueryDict(parts.named, n)})) :
                        n \in names}
        matched == MatchConditions(cls, conditions)
    IN  inner \cup (IF Cardinality(matched) = 1
                    THEN {} ELSE {JunctionObject(cls, matched)})

\* The Junction objects the last call brought into existence.
created == IF call.op = "J" THEN Created(call.cls, call.args) ELSE {}

\* ----------------------------------------------------------------- sizes
RECURSIVE SumSize(_)
RECURSIVE Size(_)
\* Number of condition objects in a condition tree.
Size(c) ==
    CASE c.tag = "None" -> 0
      [] c.tag = "V" -> 1
      [] c.tag = "Q" -> 1 + Size(c.other_condition)
      [] c.tag = "J" -> 1 + SumSize(SetToSeq(c.conditions))

SumSize(s) == IF s = <<>> THEN 0 ELSE Size(Head(s)) + SumSize(Tail(s))

\* What the caller holds: every operand counts, an absent one as one node.
RECURSIVE Held(_)
Held(s) ==
    IF s = <<>> THEN 0
    ELSE (IF Head(s) = None THEN 1 ELSE Size(Head(s))) + Held(Tail(s))

NoCall == [op |-> "init", cls |-> "", name |-> "", args |-> <<>>]

\* --------------------------------------------------------------- actions
\* The two threads of the concurrent constructions.
Threads == {1, 2}

\* The locals of a call of _match_conditions before its first step.
EmptyFrame == [todo |-> <<>>, new_conditions |-> {}, named_query_dict |-> {}]

\* A thread that runs no construction.
IdleThread == [cls |-> "", fn |-> "", pc |-> "idle", ret |-> None]

Init ==
    /\ stack = <<>>
    /\ call = NoCall
    /\ result = None
    /\ text = <<>>
    /\ heap = <<>>
    /\ heap0 = <<>>
    /\ thread = [t \in Threads |-> IdleThread]
    /\ frame = [t \in Threads |-> EmptyFrame]

\* The caller writes V(op, lit).
MakeV ==
    \E l \in Leaves :
        /\ Len(stack) < MaxArgs
        /\ Held(stack) + 1 <= MaxSize
        /\ stack' = Append(stack, V(l[1], l[2]))
        /\ call' = [NoCall EXCEPT !.op = "V"]
        /\ result' = V(l[1], l[2])
        /\ text' = <<>>
        /\ UNCHANGED cvars

\* The caller passes None for a condition.
TakeNone ==
    /\ Len(stack) < MaxArgs
    /\ Held(stack) + 1 <= MaxSize
    /\ stack' = Append(stack, None)
    /\ call' = [NoCall EXCEPT !.op = "None"]
    /\ result' = None
    /\ text' = <<>>
    /\ UNCHANGED cvars

\* The caller writes Q(name, condition) around the newest operand.
MakeQ ==
    \E name \in Names :
        /\ stack # <<>>
        /\ Held(Append(SubSeq(stack, 1, Len(stack) - 1),
                        NamedQuery(name, stack[Len(stack)]))) <= MaxSize
        /\ LET condition == stack[Len(stack)]
               q == NamedQuery(name, condition)
           IN  /\ stack' = Append(SubSeq(stack, 1, Len(stack) - 1), q)
               /\ call' = [op |-> "Q", cls |-> "", name |-> name, args |-> <<condition>>]
               /\ result' = q
        /\ text' = <<>>
        /\ UNCHANGED cvars

\* The caller writes cls(conditions...) over the newest k operands, and keeps
\* the returned condition in their place when it fits what the caller holds.
MakeJunction ==
    \E cls \in Kinds, k \in 0..MaxArgs :
        /\ k <= Len(stack)
        /\ LET args == SubSeq(stack, Len(stack) - k + 1, Len(stack))
               kept == SubSeq(stack, 1, Len(stack) - k)
               r == New(cls, args)
           IN  /\ Len(kept) < MaxArgs
               /\ stack' = IF Held(Append(kept, r)) <= MaxSize
                            THEN Append(kept, r) ELSE kept
               /\ call' = [op |-> "J", cls |-> cls, name |-> "", args |-> args]
               /\ result' = r
        /\ text' = <<>>
        /\ UNCHANGED cvars

\* The caller holds one finished tree, the condition just built, renders it
\* and lets go of it (a tree is rendered once and then discarded):
\* str(condition).
RenderStr ==
    /\ call.op \in {"V", "Q", "J"}
    /\ stack = <<result>>
    /\ text' = Str(result)
    /\ call' = [op |-> "str", cls |-> "", name |-> "", args |-> <<result>>]
    /\ stack' = <<>>
    /\ UNCHANGED result
    /\ UNCHANGED cvars

\* The caller anchors the one tree it holds (or None) to a name and renders
\* the statement: Q(name, condition).query.
RenderQuery ==
    \E name \in Names :
        /\ call.op \in {"V", "Q", "J", "None"}
        /\ stack = <<result>>
        /\ text' = Query(NamedQuery(name, result))
        /\ call' = [op |-> "query", cls |-> "", name |-> name, args |-> <<result>>]
        /\ stack' = <<>>
        /\ result' = NamedQuery(name, result)
        /\ UNCHANGED cvars

Next == MakeV \/ TakeNone \/ MakeQ \/ MakeJunction \/ RenderStr \/ RenderQuery

Spec == Init /\ [][Next]_vars

\* ------------------------------------------------ concurrent constructions
\* Two threads each run cls(conditions...) over the same argument conditions,
\* one step of __new__ / _match_conditions / __init__ at a time.

\* The conditions the shared arguments are drawn from.
Pool ==
    { None,
      V("<", 1),
      NamedQuery("a", V("<", 1)),
      NamedQuery("a", V(">", 0)),
      JunctionObject("And", {V(">", 0), NamedQuery("b", V("<", 1))}) }

\* A slip of _match_conditions: new_conditions and named_query_dict are kept
\* on the class, one pair for every call.
Slot_Shared(t) == 1

\* new_conditions = set() and named_query_dict = defaultdict(set) are created
\* by each call: the call of thread t has its own frame.
Slot(t) == t

InitConc ==
    /\ stack = <<>>
    /\ call = NoCall
    /\ result = None
    /\ text = <<>>
    /\ heap \in [1..MaxShared -> Pool]
    /\ heap0 = heap
    /\ thread \in [Threads -> {[cls |-> k, fn |-> "__new__", pc |-> "start",
                                 ret |-> None] : k \in Kinds}]
    /\ frame = [t \in Threads |-> EmptyFrame]

\* _match_conditions is entered: fresh locals, add_conditions(conditions).
Enter(t) ==
    /\ thread[t].pc = "start"
    /\ frame' = [frame EXCEPT ![Slot(t)] = [EmptyFrame EXCEPT !.todo = heap]]
    /\ thread' = [thread EXCEPT ![t].pc = "add"]
    /\ UNCHANGED <<heap, heap0>>
    /\ UNCHANGED svars

\* add_conditions: if condition is None: continue.
Discard(t) ==
    /\ thread[t].pc = "add"
    /\ frame[Slot(t)].todo # <<>>
    /\ Head(frame[Slot(t)].todo) = None
    /\ frame' = [frame EXCEPT ![Slot(t)].todo = Tail(@)]
    /\ UNCHANGED <<heap, heap0, thread>>
    /\ UNCHANGED svars

\* add_conditions: a junction of the class is walked in its place.
Flatten(t) ==
    /\ thread[t].pc = "add"
    /\ frame[Slot(t)].todo # <<>>
    /\ Head(frame[Slot(t)].todo) # None
    /\ IsInstance(Head(frame[Slot(t)].todo), thread[t].cls)
    /\ frame' = [frame EXCEPT ![Slot(t)].todo = Iter(Head(@)) \o Tail(@)]
    /\ UNCHANGED <<heap, heap0, thread>>
    /\ UNCHANGED svars

\* add_conditions: a named query is put under its name.
Partition(t) ==
    /\ thread[t].pc = "add"
    /\ frame[Slot(t)].todo # <<>>
    /\ Head(frame[Slot(t)].todo) # None
    /\ ~IsInstance(Head(frame[Slot(t)].todo), thread[t].cls)
    /\ IsNamedQuery(Head(frame[Slot(t)].todo))
    /\ frame' = [frame EXCEPT
                    ![Slot(t)].named_query_dict = @ \cup {Head(frame[Slot(t)].todo)},
                    ![Slot(t)].todo = Tail(@)]
    /\ UNCHANGED <<heap, heap0, thread>>
    /\ UNCHANGED svars

\* add_conditions: any other condition becomes a member.
Add(t) ==
    /\ thread[t].pc = "add"
    /\ frame[Slot(t)].todo # <<>>
    /\ Head(frame[Slot(t)].todo) # None
    /\ ~IsInstance(Head(frame[Slot(t)].todo), thread[t].cls)
    /\ ~IsNamedQuery(Head(frame[Slot(t)].todo))
    /\ frame' = [frame EXCEPT
                    ![Slot(t)].new_conditions = @ \cup {Head(frame[Slot(t)].todo)},
                    ![Slot(t)].todo = Tail(@)]
    /\ UNCHANGED <<heap, heap0, thread>>
    /\ UNCHANGED svars

\* The loop over named_query_dict.items(): the queries of one name become
\* one NamedQuery over cls(their inner conditions...), added to the members.
Merge(t) ==
    /\ thread[t].pc = "add"
    /\ frame[Slot(t)].todo = <<>>
    /\ \E q \in frame[Slot(t)].named_query_dict :
          LET queries == NamedQueryDict(frame[Slot(t)].named_query_dict, q.name)
          IN  frame' = [frame EXCEPT
                  ![Slot(t)].new_conditions =
                      @ \cup {NamedQuery(q.name, MergedInner(thread[t].cls, queries))},
                  ![Slot(t)].named_query_dict = @ \ queries]
    /\ UNCHANGED <<heap, heap0, thread>>
    /\ UNCHANGED svars

\* __new__: a single member is returned in place of a junction.
Collapse(t) ==
    /\ thread[t].pc = "add"
    /\ thread[t].fn = "__new__"
    /\ frame[Slot(t)].todo = <<>>
    /\ frame[Slot(t)].named_query_dict = {}
    /\ Cardinality(frame[Slot(t)].new_conditions) = 1
    /\ thread' = [thread EXCEPT
                     ![t].ret = CHOOSE c \in frame[Slot(t)].new_conditions : TRUE,
                     ![t].pc = "done"]
    /\ UNCHANGED <<heap, heap0, frame>>
    /\ UNCHANGED svars

\* __new__: object.__new__(cls), and __init__ is called with the arguments.
Allocate(t) ==
    /\ thread[t].pc = "add"
    /\ thread[t].fn = "__new__"
    /\ frame[Slot(t)].todo = <<>>
    /\ frame[Slot(t)].named_query_dict = {}
    /\ Cardinality(frame[Slot(t)].new_conditions) # 1
    /\ thread' = [thread EXCEPT ![t].fn = "__init__", ![t].pc = "start"]
    /\ UNCHANGED <<heap, heap0, frame>>
    /\ UNCHANGED svars

\* __init__: self.conditions = the members _match_conditions returned.
SetConditions(t) ==
    /\ thread[t].pc = "add"
    /\ thread[t].fn = "__init__"
    /\ frame[Slot(t)].todo = <<>>
    /\ frame[Slot(t)].named_query_dict = {}
    /\ thread' = [thread EXCEPT
                     ![t].ret = JunctionObject(thread[t].cls,
                                               frame[Slot(t)].new_conditions),
                     ![t].pc = "done"]
    /\ UNCHANGED <<heap, heap0, frame>>
    /\ UNCHANGED svars

NextConc ==
    \E t \in Threads :
        \/ Enter(t)
        \/ Discard(t)
        \/ Flatten(t)
        \/ Partition(t)
        \/ Add(t)
        \/ Merge(t)
        \/ Collapse(t)
        \/ Allocate(t)
        \/ SetConditions(t)

SpecConc == InitConc /\ [][NextConc]_vars

\* ---------------------------------------------------------------- claims
\* The last call was cls(conditions...) for a junction class.
IsJunctionCall == call.op = "J"

\* The last call was cls(x, y) with x and y named queries of one name.
IsSameNamePair ==
    /\ IsJunctionCall
    /\ Len(call.args) = 2
    /\ IsNamedQuery(call.args[1])
    /\ IsNamedQuery(call.args[2])
    /\ call.args[1].name = call.args[2].name

\* A leaf value condition.
IsLeaf(c) == c.tag = "V"

\* C1: K(Q(n, i1), Q(n, i2)) with distinct present i1, i2 is the single
\* NamedQuery Q(n, K(i1, i2)), merged with the same kind K, and not a
\* Junction of two NamedQuery members.
C1_NamedQueryMerge ==
    (/\ IsSameNamePair
     /\ call.args[1].other_condition # None
     /\ call.args[2].other_condition # None
     /\ call.args[1].other_condition # call.args[2].other_condition)
    => LET i1 == call.args[1].other_condition
           i2 == call.args[2].other_condition
       IN  /\ IsNamedQuery(result)
           /\ result.name = call.args[1].name
           /\ result.other_condition = New(call.cls, <<i1, i2>>)
           /\ (IsLeaf(i1) /\ IsLeaf(i2)) =>
                  result.other_condition = JunctionObject(call.cls, {i1, i2})

\* Or(Q(n, V("<", 1)), Q(n, V(">", 0))) has been constructed and returned
\* Q(n, Or(V("<", 1), V(">", 0))).
C1_Witness ==
    /\ IsSameNamePair
    /\ call.cls = "Or"
    /\ call.args[1].other_condition = V("<", 1)
    /\ call.args[2].other_condition = V(">", 0)
    /\ result = NamedQuery(call.args[1].name,
                           JunctionObject("Or", {V("<", 1), V(">", 0)}))

\* C2: singleton collapse, K(x) is x itself for every condition x.
C2_SingletonCollapse ==
    (IsJunctionCall /\ Len(call.args) = 1 /\ call.args[1] # None)
    => result = call.args[1]

\* C3: every Junction object that comes into existence has at least two
\* members.
C3_AtLeastTwoMembers ==
    \A j \in created : Cardinality(j.conditions) >= 2

\* C4: And(...) / Or(...) over no arguments or only absent arguments yields
\* the neutral value None, not a Junction object.
C4_EmptyYieldsNone ==
    (IsJunctionCall /\ \A i \in 1..Len(call.args) : call.args[i] = None)
    => result = None

\* C5: Or(Q(n), Q(n, X)) with X present is Q(n) with an absent inner
\* (None OR X == None).
C5_OrAbsorption ==
    (/\ IsSameNamePair
     /\ call.cls = "Or"
     /\ \E i \in 1..2 : /\ call.args[i].other_condition = None
                        /\ call.args[3 - i].other_condition # None)
    => result = NamedQuery(call.args[1].name, None)

\* C6: And(Q(n), Q(n, X)) with X present is Q(n, X) (None AND X == X).
C6_AndIdentity ==
    (/\ IsSameNamePair
     /\ call.cls = "And")
    => \A i \in 1..2 :
          (/\ call.args[i].other_condition = None
           /\ call.args[3 - i].other_condition # None)
          => result = call.args[3 - i]

\* C7: flattening is associative, K(K(a, b), c) and K(a, b, c) are the same
\* condition with the same member set (hence the same text), also when
\* K(a, b) collapsed to one condition or to a merged NamedQuery.
C7_FlattenAssociative ==
    (IsJunctionCall /\ Len(call.args) = 3)
    => LET ab == New(call.cls, <<call.args[1], call.args[2]>>)
       IN  /\ result = New(call.cls, <<ab, call.args[3]>>)
           /\ MatchConditions(call.cls, call.args)
                  = MatchConditions(call.cls, <<ab, call.args[3]>>)

\* K(a, b, c) has been constructed where K(a, b) merges two same-named
\* queries into one NamedQuery and c is a further member.
C7_Witness ==
    /\ IsJunctionCall
    /\ Len(call.args) = 3
    /\ IsNamedQuery(call.args[1])
    /\ IsNamedQuery(call.args[2])
    /\ call.args[1] # call.args[2]
    /\ IsNamedQuery(New(call.cls, <<call.args[1], call.args[2]>>))
    /\ IsLeaf(call.args[3])
    /\ IsJunction(result)
    /\ Cardinality(result.conditions) = 2

\* C8: no member of a constructed Junction is a Junction of the same kind.
C8_NoSameKindMember ==
    \A j \in created : \A m \in j.conditions : ~(m.tag = "J" /\ m.cls = j.cls)

\* A Junction has been constructed from arguments one of which is a
\* non-empty Junction of the same kind.
C8_Witness ==
    /\ IsJunctionCall
    /\ IsJunction(result)
    /\ result \in created
    /\ \E i \in 1..Len(call.args) :
          /\ IsInstance(call.args[i], call.cls)
          /\ call.args[i].conditions # {}
          /\ call.args[i] # result

\* The names of the NamedQuery arguments of a call, directly or inside
\* same-kind Junction arguments.
RECURSIVE ArgNames(_, _)
ArgNames(cls, S) ==
    UNION {IF c = None THEN {}
           ELSE IF IsNamedQuery(c) THEN {c.name}
           ELSE IF IsInstance(c, cls) THEN ArgNames(cls, c.conditions)
           ELSE {} : c \in S}

\* C9: in a constructed Junction no two distinct members are NamedQuery of
\* one name, and each name among the NamedQuery arguments is represented by
\* exactly one NamedQuery member.
C9_OneMemberPerName ==
    /\ \A j \in created : \A m1, m2 \in j.conditions :
          (IsNamedQuery(m1) /\ IsNamedQuery(m2) /\ m1.name = m2.name) => m1 = m2
    /\ (IsJunctionCall /\ IsJunction(result) /\ result \in created)
       => \A n \in ArgNames(call.cls, {call.args[i] : i \in 1..Len(call.args)}) :
             Cardinality({m \in result.conditions :
                             IsNamedQuery(m) /\ m.name = n}) = 1

\* A Junction has been constructed from two different queries of one name
\* and a query of another name.
C9_Witness ==
    /\ IsJunctionCall
    /\ Len(call.args) = 3
    /\ \A i \in 1..3 : IsNamedQuery(call.args[i])
    /\ call.args[1].name = call.args[2].name
    /\ call.args[1] # call.args[2]
    /\ call.args[3].name # call.args[1].name
    /\ IsJunction(result)
    /\ Cardinality(result.conditions) = 2

\* C10: deduplication, K(a, a, b) is K(a, b); in particular K(a, a) is a
\* itself and K(Q(n, x), Q(n, x)) is Q(n, x).
C10_Deduplication ==
    /\ (IsJunctionCall /\ Len(call.args) = 3 /\ call.args[1] = call.args[2])
       => result = New(call.cls, <<call.args[2], call.args[3]>>)
    /\ (/\ IsJunctionCall
        /\ Len(call.args) = 2
        /\ call.args[1] = call.args[2]
        /\ call.args[1] # None)
       => result = call.args[1]

\* n copies of x in a row.
RECURSIVE Repeat(_, _)
Repeat(x, n) == IF n = 0 THEN <<>> ELSE <<x>> \o Repeat(x, n - 1)

\* The arguments args arranged as order lists them, each as often as it
\* occurs in args.
RECURSIVE Arranged(_, _)
Arranged(order, args) ==
    IF order = <<>> THEN <<>>
    ELSE Repeat(Head(order),
                Cardinality({i \in 1..Len(args) : args[i] = Head(order)}))
         \o Arranged(Tail(order), args)

\* One arrangement of the arguments that every permutation of them shares.
Canonical(args) == Arranged(SetToSeq({args[i] : i \in 1..Len(args)}), args)

\* C11: argument order is irrelevant.  Constructing K over the arguments
\* yields the member set and the rendered text that the one arrangement
\* shared by all their permutations yields, so every two permutations of the
\* same arguments agree; the members are rendered in sorted order.
C11_OrderIrrelevant ==
    IsJunctionCall
    => LET permuted == MatchConditions(call.cls, Canonical(call.args))
           sorted == IF IsJunction(result) THEN Iter(result) ELSE <<>>
       IN  /\ permuted = MatchConditions(call.cls, call.args)
           /\ Concat(Str(Returned(call.cls, permuted))) = Concat(Str(result))
           /\ IsJunction(result) =>
                 /\ {sorted[i] : i \in 1..Len(sorted)} = result.conditions
                 /\ \A i, j \in 1..Len(sorted) :
                       i < j => LessText(Str(sorted[i]), Str(sorted[j]))

\* K(a, b) has been constructed from two distinct conditions given in the
\* order opposite to their sorted order, and is a Junction of both.
C11_Witness ==
    /\ IsJunctionCall
    /\ Len(call.args) = 2
    /\ call.args[1] # None
    /\ call.args[2] # None
    /\ LessText(Str(call.args[2]), Str(call.args[1]))
    /\ IsJunction(result)
    /\ result.conditions = {call.args[1], call.args[2]}

\* The tables of the comparisons of a condition that lie outside every
\* named query.
RECURSIVE OutsideTables(_)
OutsideTables(c) ==
    CASE c.tag = "None" -> {}
      [] c.tag = "V" -> {"value"}
      [] c.tag = "Q" -> {}
      [] c.tag = "J" -> UNION {OutsideTables(m) : m \in c.conditions}

\* C12: the table set of a constructed Junction is the union of the table
\* sets of its members that are not named queries; a table required only
\* inside the inner predicate of a NamedQuery member is not in it.
C12_TableFootprint ==
    \A j \in created :
        /\ Tables(j) = UNION {Tables(m) : m \in {c \in j.conditions : c.tag # "Q"}}
        /\ Tables(j) \subseteq OutsideTables(j)

\* A Junction has been constructed all of whose members are named queries
\* with a comparison inside: it requires the value table only inside them
\* and its own table set is empty.
C12_Witness ==
    /\ IsJunctionCall
    /\ IsJunction(result)
    /\ result \in created
    /\ Cardinality(result.conditions) = 2
    /\ \A m \in result.conditions :
          m.tag = "Q" /\ m.other_condition.tag = "V"
    /\ Tables(result) = {}

\* The nesting depth of parentheses after the first i tokens of a text.
RECURSIVE DepthAt(_, _)
DepthAt(tokens, i) ==
    IF i = 0 THEN 0
    ELSE DepthAt(tokens, i - 1)
         + (IF tokens[i] \in {"(", "id IN ("} THEN 1
            ELSE IF tokens[i] = ")" THEN 0 - 1 ELSE 0)

\* The positions of the separators directly inside the outer parentheses.
TopSeparators(tokens) ==
    {i \in 1..Len(tokens) :
        tokens[i] \in {" AND ", " OR "} /\ DepthAt(tokens, i) = 1}

\* The piece of a parenthesised text that starts after position i and runs
\* to the next top-level separator or to the closing parenthesis.
Segment(tokens, i) ==
    LET ends == {j \in TopSeparators(tokens) \cup {Len(tokens)} : j > i}
        next == CHOOSE j \in ends : \A l \in ends : j <= l
    IN  SubSeq(tokens, i + 1, next - 1)

\* C13: the text of a Junction is "(" + the texts of its members in sorted
\* order, each member once, separated by the keyword of its kind + ")"; a
\* Junction with k members has exactly k - 1 top-level separators.
C13_JunctionText ==
    (call.op = "str" /\ IsJunction(result))
    => LET k == Cardinality(result.conditions)
           seps == TopSeparators(text)
           starts == {1} \cup seps
       IN  /\ Len(text) >= 2
           /\ text[1] = "("
           /\ text[Len(text)] = ")"
           /\ Cardinality(seps) = k - 1
           /\ \A i \in seps : text[i] = JoinToken(result.cls)
           /\ \A m \in result.conditions :
                 Cardinality({i \in starts : Segment(text, i) = Str(m)}) = 1
           /\ \A i, j \in starts :
                 i < j => ~LessText(Segment(text, j), Segment(text, i))

\* The query text expected of a named query 'a' over the two comparisons
\* joined by a keyword, as the string tests of the repository write it.
SimpleQueryText(keyword) ==
    "SELECT parent_id FROM object AS o, value AS v WHERE o.name = 'a' AND v.value < 1"
    \o keyword \o "v.value > 0"

\* C14: the query text of the named query 'a' over And(value < 1, value > 0)
\* is exactly "SELECT parent_id FROM object AS o, value AS v WHERE
\* o.name = 'a' AND v.value < 1 AND v.value > 0", and with Or in place of And
\* the same text with " OR " between the two comparisons.
C14_SimpleQueryText ==
    \A cls \in Kinds :
        ( /\ call.op = "query"
          /\ call.name = "a"
          /\ call.args = <<JunctionObject(cls, {V("<", 1), V(">", 0)})>> )
        => Concat(text) = SimpleQueryText(JoinToken(cls))

\* The tree of the second-level query: value < 1 ANDed with the named query
\* 'b' over value > 0.
SecondLevel == JunctionObject("And", {V("<", 1), NamedQuery("b", V(">", 0))})

\* The subquery predicate of the named query 'b' over value > 0.
SubqueryB ==
    << "id IN (", "SELECT parent_id FROM ", "object AS o", ", ", "value AS v",
       " WHERE ", "o.name = 'b'", " AND ", "v.value > 0", ")" >>

\* The positions of a token in a text.
Positions(tokens, token) == {i \in 1..Len(tokens) : tokens[i] = token}

\* C15: a NamedQuery that is not the root renders as a correlated subquery
\* predicate. The query anchored at 'a' over value < 1 AND the named query
\* 'b' over value > 0 is one outer SELECT whose WHERE clause conjoins with
\* AND the name match of 'a', the comparison v.value < 1 and exactly one
\* predicate id IN (SELECT ... WHERE o.name = 'b' AND v.value > 0); the name
\* match and the comparison of 'b' occur only inside that subquery.
C15_CorrelatedSubquery ==
    (call.op = "query" /\ call.name = "a" /\ call.args = <<SecondLevel>>)
    => LET starts == {i \in 1..Len(text) :
                        /\ i + Len(SubqueryB) - 1 <= Len(text)
                        /\ SubSeq(text, i, i + Len(SubqueryB) - 1) = SubqueryB}
           inside == {i \in 1..Len(text) :
                        \E b \in starts : b <= i /\ i < b + Len(SubqueryB)}
           outside == (1..Len(text)) \ inside
           where == {i \in outside : text[i] = " WHERE "}
       IN  /\ Cardinality(starts) = 1
           /\ Cardinality(Positions(text, "id IN (")) = 1
           /\ Positions(text, "SELECT parent_id FROM ") \cap outside = {1}
           /\ Cardinality(where) = 1
           /\ \A w \in where :
                 /\ \A i \in inside : w < i
                 /\ \A i \in outside :
                       w < i => text[i] \in {"o.name = 'a'", "v.value < 1",
                                             " AND ", "(", ")"}
                 /\ Cardinality({i \in outside : text[i] = " AND "}) = 2
                 /\ \E i, j \in outside :
                       /\ w < i /\ w < j
                       /\ text[i] = "o.name = 'a'" /\ text[j] = "v.value < 1"
           /\ Cardinality(Positions(text, "o.name = 'a'")) = 1
           /\ Cardinality(Positions(text, "v.value < 1")) = 1
           /\ Positions(text, "o.name = 'b'") \subseteq inside
           /\ Positions(text, "v.value > 0") \subseteq inside
           /\ Cardinality(Positions(text, "o.name = 'b'")) = 1
           /\ Cardinality(Positions(text, "v.value > 0")) = 1

\* The second-level query has been rendered.
C15_Witness ==
    /\ call.op = "query"
    /\ call.name = "a"
    /\ call.args = <<SecondLevel>>
    /\ result = NamedQuery("a", SecondLevel)
    /\ Positions(text, "id IN (") # {}

\* C16: concurrent constructions over shared argument conditions do not
\* interfere. Under every interleaving of their steps each construction
\* returns what it returns when it runs alone, and the argument conditions
\* are the same after the constructions as before them.
C16_NoInterference ==
    /\ heap = heap0
    /\ \A t \in Threads :
          thread[t].pc = "done" => thread[t].ret = New(thread[t].cls, heap0)

\* Both constructions have returned, of different classes, over two named
\* queries of one name that each of them merged.
C16_Witness ==
    /\ \A t \in Threads : thread[t].pc = "done"
    /\ thread[1].cls # thread[2].cls
    /\ Len(heap) >= 2
    /\ IsNamedQuery(heap[1]) /\ IsNamedQuery(heap[2])
    /\ heap[1] # heap[2] /\ heap[1].name = heap[2].name
    /\ \A t \in Threads :
          /\ IsNamedQuery(thread[t].ret)
          /\ IsInstance(thread[t].ret.other_condition, thread[t].cls)

====
